---- MODULE Spec2Model ----
(***************************************************************************)
(* Model of pytorch_quantum/operators.py: one operator object (a gate) of  *)
(* any class of the catalog, with its attributes as the state, and one     *)
(* action per operation a caller can perform on it: construction, the name *)
(* setter, reset_params, the matrix and eigvals reads, and forward.        *)
(*                                                                         *)
(* Optional values (Python's None, an attribute that was never assigned)   *)
(* are sequences of length at most one: <<>> is None, <<x>> is x.          *)
(* Numbers held in tensors are abstracted to the small set Vals.           *)
(* Complex constants are written as strings ("1", "-1", "1j", ...), a      *)
(* vector is a sequence of them and a matrix a sequence of rows.           *)
(***************************************************************************)
EXTENDS Integers, Sequences, FiniteSets, TLC

\* Longest init_params list and longest call-time parameter vector drawn.
MaxLen == 4

\* WiresEnum (operators.py:16-31)
AnyWires == -1
AllWires == 0

None == <<>>
Some(x) == <<x>>
IsNone(o) == o = <<>>
Get(o) == o[1]

\* The numbers a tensor entry, a scalar or a list element is drawn from.
Vals == {0, 1}

(***************************************************************************)
(* The catalog: the classes of the module and their class-level attributes *)
(***************************************************************************)

\* Operator.fixed_ops / Operator.parameterized_ops
fixed_ops ==
    {"Hadamard", "PauliX", "PauliY", "PauliZ", "S", "T", "SX",
     "CNOT", "CZ", "CY", "SWAP", "CSWAP", "Toffoli"}

parameterized_ops ==
    {"RX", "RY", "RZ", "PhaseShift", "Rot", "MultiRZ",
     "CRX", "CRY", "CRZ", "CRot", "U1"}

\* The concrete classes, by their bases.
ObservableOnly == {"PauliX", "PauliY", "PauliZ"}            \* class X(Observable)
ObservableOperation == {"Hadamard"}                         \* class X(Observable, Operation)
DiagonalClasses == {"S", "T", "CZ", "RZ", "PhaseShift", "MultiRZ", "U1"}
PlainOperation ==
    {"SX", "CNOT", "CY", "SWAP", "CSWAP", "Toffoli",
     "RX", "RY", "Rot", "CRX", "CRY", "CRZ", "CRot"}
Classes == ObservableOnly \cup ObservableOperation \cup DiagonalClasses \cup PlainOperation

\* Classes whose __init__ is Operation.__init__ (it takes the four keyword
\* arguments); the others are built by Observable.__init__(self), which takes none.
TakesArguments == DiagonalClasses \cup PlainOperation

\* num_params of each class
num_params(c) ==
    IF c \in {"Rot", "CRot"} THEN 3
    ELSE IF c \in {"RX", "RY", "RZ", "PhaseShift", "MultiRZ", "CRX", "CRY", "CRZ", "U1"} THEN 1
    ELSE 0

\* num_wires of each class
num_wires(c) ==
    IF c = "MultiRZ" THEN AnyWires
    ELSE IF c \in {"CSWAP", "Toffoli"} THEN 3
    ELSE IF c \in {"CNOT", "CZ", "CY", "SWAP", "CRX", "CRY", "CRZ", "CRot"} THEN 2
    ELSE 1

\* func of each class: the kernel of pytorch_quantum.functional it names
func(c) ==
    CASE c = "Hadamard" -> "hadamard" [] c = "PauliX" -> "paulix"
      [] c = "PauliY" -> "pauliy"     [] c = "PauliZ" -> "pauliz"
      [] c = "S" -> "s"               [] c = "T" -> "t"
      [] c = "SX" -> "sx"             [] c = "CNOT" -> "cnot"
      [] c = "CZ" -> "cz"             [] c = "CY" -> "cy"
      [] c = "SWAP" -> "swap"         [] c = "CSWAP" -> "cswap"
      [] c = "Toffoli" -> "toffoli"   [] c = "RX" -> "rx"
      [] c = "RY" -> "ry"             [] c = "RZ" -> "rz"
      [] c = "PhaseShift" -> "phaseshift" [] c = "Rot" -> "rot"
      [] c = "MultiRZ" -> "multirz"   [] c = "CRX" -> "crx"
      [] c = "CRY" -> "cry"           [] c = "CRZ" -> "crz"
      [] c = "CRot" -> "crot"         [] c = "U1" -> "u1"

\* Classes with a class attribute named eigvals (it shadows the inherited property).
HasClassEigvals == {"Hadamard", "PauliX", "PauliY", "PauliZ", "S", "T", "SX", "CZ"}

\* The value of that class attribute.
ClassEigvals(c) ==
    CASE c \in {"Hadamard", "PauliX", "PauliY", "PauliZ"} -> <<"1", "-1">>
      [] c \in {"S", "T", "SX"} -> <<"1", "1j">>
      [] c = "CZ" -> <<"1", "1", "1", "-1">>

\* Classes with a class attribute named matrix (it shadows the inherited property).
HasClassMatrix == fixed_ops

\* Classes that define _eigvals themselves (each returns cls.eigvals).
DefinesEigvals == HasClassEigvals

(***************************************************************************)
(* pytorch_quantum.functional.mat_dict: the reference matrices of the      *)
(* fixed gates (the registry of the specification, section 4.1).           *)
(***************************************************************************)

\* The identity matrix of dimension n with rows a and b exchanged.
SwapRows(n, a, b) ==
    [i \in 1..n |-> [j \in 1..n |->
        IF (i = a /\ j = b) \/ (i = b /\ j = a) \/ (i = j /\ i # a /\ i # b)
        THEN "1" ELSE "0"]]

mat_dict(key) ==
    CASE key = "hadamard" -> << <<"1/sqrt2", "1/sqrt2">>, <<"1/sqrt2", "-1/sqrt2">> >>
      [] key = "paulix" -> << <<"0", "1">>, <<"1", "0">> >>
      [] key = "pauliy" -> << <<"0", "-1j">>, <<"1j", "0">> >>
      [] key = "pauliz" -> << <<"1", "0">>, <<"0", "-1">> >>
      [] key = "s" -> << <<"1", "0">>, <<"0", "1j">> >>
      [] key = "t" -> << <<"1", "0">>, <<"0", "exp(1j*pi/4)">> >>
      [] key = "sx" -> << <<"(1+1j)/2", "(1-1j)/2">>, <<"(1-1j)/2", "(1+1j)/2">> >>
      [] key = "cnot" -> SwapRows(4, 3, 4)
      [] key = "cz" -> << <<"1", "0", "0", "0">>, <<"0", "1", "0", "0">>,
                          <<"0", "0", "1", "0">>, <<"0", "0", "0", "-1">> >>
      [] key = "cy" -> << <<"1", "0", "0", "0">>, <<"0", "1", "0", "0">>,
                          <<"0", "0", "0", "-1j">>, <<"0", "0", "1j", "0">> >>
      [] key = "swap" -> SwapRows(4, 2, 3)
      [] key = "cswap" -> SwapRows(8, 6, 7)
      [] key = "toffoli" -> SwapRows(8, 7, 8)

\* The value of the class attribute matrix: mat_dict under the class's key.
ClassMatrix(c) == mat_dict(func(c))

\* torch.diag of a vector: the square matrix with the vector on its diagonal.
diag(v) ==
    [i \in 1..Len(v) |-> [j \in 1..Len(v) |-> IF i = j THEN v[i] ELSE "0"]]

(***************************************************************************)
(* What an attribute read or a call gives back: a value, the result of a   *)
(* call into pytorch_quantum.functional (kept symbolic: the function and   *)
(* its argument), or an exception.                                         *)
(***************************************************************************)
\* Call(f, a) stands for tqf.<f>_matrix(a).
Value(v) == [kind |-> "value", val |-> v, fn |-> "", arg |-> None, err |-> ""]
Call(f, a) == [kind |-> "call", val |-> <<>>, fn |-> f, arg |-> a, err |-> ""]
Raise(e) == [kind |-> "raise", val |-> <<>>, fn |-> "", arg |-> None, err |-> e]
NoResult == [kind |-> "none", val |-> <<>>, fn |-> "", arg |-> None, err |-> ""]

\* cls._matrix(params) of each class.  The thirteen fixed classes return
\* cls.matrix; the parameterized ones call tqf.<gate>_matrix(params);
\* MultiRZ._matrix takes a second positional argument, n_wires, which a
\* one-argument call does not give.
matrix_of_class(c, p) ==
    IF c \in HasClassMatrix THEN Value(ClassMatrix(c))
    ELSE IF c = "MultiRZ" THEN Raise("TypeError")
    ELSE Call(func(c), p)

\* cls._eigvals(params) of each class.  Eight classes return cls.eigvals; every
\* other class inherits Operator._eigvals or DiagonalOperation._eigvals, and both
\* raise NotImplementedError.
eigvals_of_class(c, p) ==
    IF c \in DefinesEigvals THEN Value(ClassEigvals(c))
    ELSE Raise("NotImplementedError")

\* obj.matrix: the class attribute where the class has one, else the property
\* Operation.matrix, which is self._matrix(self.params).
matrix(c, p) ==
    IF c \in HasClassMatrix THEN Value(ClassMatrix(c))
    ELSE matrix_of_class(c, p)

\* obj.eigvals: the class attribute where the class has one, else the property
\* (DiagonalOperation.eigvals -> Operation.eigvals), which is
\* self._eigvals(self.params).
eigvals(c, p) ==
    IF c \in HasClassEigvals THEN Value(ClassEigvals(c))
    ELSE eigvals_of_class(c, p)

(***************************************************************************)
(* Parameter tensors.  A tensor of shape [1, n] is a sequence of n         *)
(* entries; each entry holds its number and how it got it: "empty" (left   *)
(* as torch.empty allocated it, an arbitrary number), "list", "scalar",    *)
(* "uniform" (written by reset_params) or "call" (a call-time tensor).     *)
(* src tells a tensor build_params allocated from one a caller passed in.  *)
(***************************************************************************)
Entry(x, how) == [v |-> x, by |-> how]
Tensor(source, vs, how) ==
    [src |-> source, ent |-> [k \in 1..Len(vs) |-> Entry(vs[k], how)]]
Width(t) == Len(t.ent)

\* The vectors of length n over Vals.
Vectors(n) == [1..n -> Vals]

\* The init_params arguments: None, a scalar, or a list of up to MaxLen numbers.
InitNone == [kind |-> "none", x |-> 0, l |-> <<>>]
InitScalar(x) == [kind |-> "scalar", x |-> x, l |-> <<>>]
InitList(l) == [kind |-> "list", x |-> 0, l |-> l]
\* The lists drawn have every length up to MaxLen and alternate the numbers of
\* Vals from either start, so that their entries differ by index.
InitLists == {[k \in 1..n |-> (x + k) % Cardinality(Vals)] : n \in 0..MaxLen, x \in Vals}
InitArgs ==
    {InitNone} \cup {InitScalar(x) : x \in Vals} \cup {InitList(l) : l \in InitLists}

\* The call-time params arguments for a gate of class c: None, or a tensor of
\* the shape the gate's kernel takes ([1, num_params]; [1, 1] is drawn for a
\* class without parameters).
CallWidth(c) == IF num_params(c) > 0 THEN num_params(c) ELSE 1
CallArgs(c) ==
    {None} \cup {Some(Tensor("call", [k \in 1..CallWidth(c) |-> x], "call")) : x \in Vals}

\* The n_wires arguments and the names a caller assigns: the name of a fixed
\* gate, and a name of no list.
WireArgs == {None, Some(2)}
NameArgs == {"Hadamard", "MyGate"}

\* Operation.build_params: a fresh tensor of shape [1, num_params] from
\* torch.empty; d gives the arbitrary numbers the allocation holds.
build_params(c, d) == Some(Tensor("build", d, "empty"))

\* Operation.reset_params on the tensor p (None, or Some tensor) with argument
\* init; d gives the numbers uniform_ draws.  The result is the exception raised
\* ("" for none) and the tensor as the call leaves it.
\* A list is written entry by entry: self.params[:, k] for k = 0, 1, ... in turn,
\* which raises IndexError at the first k outside the tensor, after the entries
\* before it were written.  With params None, indexing None raises TypeError and
\* the init functions fail on None.
ResetList(p, l) ==
    IF IsNone(p)
    THEN [err |-> IF Len(l) = 0 THEN "" ELSE "TypeError", params |-> p]
    ELSE [err |-> IF Len(l) > Width(Get(p)) THEN "IndexError" ELSE "",
          params |-> Some([Get(p) EXCEPT !.ent =
              [k \in 1..Width(Get(p)) |->
                  IF k <= Len(l) THEN Entry(l[k], "list") ELSE Get(p).ent[k]]])]

ResetScalar(p, x) ==
    IF IsNone(p)
    THEN [err |-> "AttributeError", params |-> p]
    ELSE [err |-> "",
          params |-> Some([Get(p) EXCEPT !.ent =
              [k \in 1..Width(Get(p)) |-> Entry(x, "scalar")]])]

ResetUniform(p, d) ==
    IF IsNone(p)
    THEN [err |-> "AttributeError", params |-> p]
    ELSE [err |-> "",
          params |-> Some([Get(p) EXCEPT !.ent =
              [k \in 1..Width(Get(p)) |-> Entry(d[k], "uniform")]])]

reset_params(p, init, d) ==
    IF init.kind = "list" THEN ResetList(p, init.l)
    ELSE IF init.kind = "scalar" THEN ResetScalar(p, init.x)
    ELSE ResetUniform(p, d)

\* The arbitrary numbers one call may meet in a tensor of n entries: what
\* torch.empty left in it (read only where a list shorter than the tensor leaves
\* entries unwritten) or what uniform_ draws (only when init_params is None).
\* Where the call reads neither, one vector stands for all.
Draws(n, init) ==
    IF init.kind = "none" \/ (init.kind = "list" /\ Len(init.l) < n)
    THEN Vectors(n)
    ELSE {[k \in 1..n |-> 0]}

\* The width of self.params (0 for None).
WidthOf(p) == IF IsNone(p) THEN 0 ELSE Width(Get(p))

(***************************************************************************)
(* Operation.__init__ and Operator.forward, step by step                   *)
(***************************************************************************)

\* A constructor that stores has_params as it was given.
HasParamsAsGiven(hp, tr) == hp

\* Operation.__init__, lines 144-151: the has_params the object gets.  The
\* assertion "not (trainable and not has_params)" fails for a trainable gate
\* without parameters; the handler then switches has_params to True.
HasParamsStored(hp, tr) == IF tr /\ ~hp THEN TRUE ELSE hp

\* Whether that handler ran (it logs the warning).
Warned(hp, tr) == tr /\ ~hp

\* An assertion written with "or" for "^".
ValidateOr(nm, hp, supplied) ==
    IF nm \in fixed_ops THEN ""
    ELSE IF IsNone(hp) THEN "AttributeError"
    ELSE IF Get(hp) \/ supplied THEN ""
    ELSE "AssertionError"

\* Operator.forward, lines 100-106: the assertion
\*     self.name in self.fixed_ops or self.has_params ^ (params is not None)
\* "" when it passes, else the exception that leaves forward.  hp is <<>> for
\* an object that never got a has_params attribute (Observable.__init__ sets
\* none): reading it raises AttributeError.
Validate(nm, hp, supplied) ==
    IF nm \in fixed_ops THEN ""
    ELSE IF IsNone(hp) THEN "AttributeError"
    ELSE IF Get(hp) # supplied THEN ""
    ELSE "AssertionError"

\* Operator.forward, lines 108-109: call-time params replace self.params.
\* The assignment is taken as the source writes it: callp is a value the
\* attribute accepts.
StoreParams(cur, callp) == IF ~IsNone(callp) THEN callp ELSE cur

\* A forward that assigns self.params before it asserts.
ParamsStoredFirst(err, cur, callp) == IF ~IsNone(callp) THEN callp ELSE cur

\* self.params when forward has ended with outcome err: the assignment of
\* lines 108-109 comes after the assertion, so a failed call has not run it.
ParamsAfterForward(err, cur, callp) ==
    IF err = "" THEN StoreParams(cur, callp) ELSE cur

\* A dispatch on the class's num_params and num_wires.
KernelCallByClass(c, p, nw) ==
    [fn |-> func(c),
     params |-> IF num_params(c) > 0 THEN p ELSE None,
     n_wires |-> IF num_wires(c) = AnyWires THEN nw ELSE None]

\* Operator.forward, lines 112-122: the one kernel call, self.func, with
\* params= passed iff self.params is not None and n_wires= passed iff
\* self.n_wires is not None.  An argument that is not passed is None here.
KernelCall(c, p, nw) == [fn |-> func(c), params |-> p, n_wires |-> nw]

\* The kernel calls of one forward with outcome err.
Dispatch(err, c, p, nw) ==
    IF err = "" THEN <<KernelCall(c, p, nw)>> ELSE <<>>

(***************************************************************************)
(* The state: the attributes of the object, and what the last operation    *)
(* was given and gave back.                                                *)
(***************************************************************************)
VARIABLES
    cls,         \* self.__class__.__name__; NoObject before the gate is built
    name,        \* self._name
    has_params,  \* self.has_params: <<>> while the attribute does not exist
    trainable,   \* self.trainable:  <<>> while the attribute does not exist
    params,      \* self.params: None or a tensor
    n_wires,     \* self.n_wires: None or a number
    last         \* the last operation: its arguments and its outcome

vars == <<cls, name, has_params, trainable, params, n_wires, last>>

NoObject == ""

Op(o) ==
    [op |-> o, err |-> "", c |-> "", supplied |-> FALSE, hp |-> FALSE, tr |-> FALSE,
     init |-> InitNone, warn |-> FALSE, calls |-> <<>>, res |-> NoResult]

\* Observable.__init__ on its own (PauliX, PauliY, PauliZ): Operator.__init__
\* sets params, n_wires and _name; no has_params, no trainable.  (return_type,
\* which Observable.__init__ sets to None and nothing reads, is left out.)
\* Hadamard(Observable, Operation): Observable.__init__ reaches
\* Operation.__init__ with its defaults.
ConstructObservable(c) ==
    /\ cls = NoObject /\ last.err = ""
    /\ c \in Classes \ TakesArguments
    /\ cls' = c
    /\ name' = c
    /\ has_params' = IF c \in ObservableOnly THEN None ELSE Some(FALSE)
    /\ trainable' = IF c \in ObservableOnly THEN None ELSE Some(FALSE)
    /\ params' = None
    /\ n_wires' = None
    /\ last' = [Op("construct") EXCEPT !.c = c]

\* Operation.__init__(has_params, trainable, init_params, n_wires) for a class
\* built by it.  d: what torch.empty holds, or what uniform_ draws.  When
\* reset_params raises, the exception leaves __init__ and no object is
\* produced (cls stays NoObject; last tells what the call was and gave).
ConstructOperation(c, hp, tr, init, nw, d) ==
    LET h == HasParamsStored(hp, tr)
        r == IF h THEN reset_params(build_params(c, d), init, d)
             ELSE [err |-> "", params |-> None]
        l == [Op("construct") EXCEPT !.c = c, !.hp = hp, !.tr = tr, !.init = init,
                                     !.warn = Warned(hp, tr), !.err = r.err]
    IN  /\ cls = NoObject /\ last.err = ""
        /\ c \in TakesArguments
        /\ last' = l
        /\ IF r.err = ""
           THEN /\ cls' = c
                /\ name' = c
                /\ has_params' = Some(h)
                /\ trainable' = Some(tr)
                /\ params' = r.params
                /\ n_wires' = nw
           ELSE UNCHANGED <<cls, name, has_params, trainable, params, n_wires>>

\* The name setter.
SetName(v) ==
    /\ cls # NoObject
    /\ name' = v
    /\ last' = Op("setname")
    /\ UNCHANGED <<cls, has_params, trainable, params, n_wires>>

\* obj.reset_params(init).  The tensor is written in place, so what was written
\* before an exception stays written.
ResetParams(init, d) ==
    LET r == reset_params(params, init, d)
    IN  /\ cls # NoObject
        /\ params' = r.params
        /\ last' = [Op("reset") EXCEPT !.init = init, !.err = r.err]
        /\ UNCHANGED <<cls, name, has_params, trainable, n_wires>>

\* obj.matrix
ReadMatrix ==
    /\ cls # NoObject
    /\ last' = [Op("matrix") EXCEPT !.res = matrix(cls, params),
                                    !.err = matrix(cls, params).err]
    /\ UNCHANGED <<cls, name, has_params, trainable, params, n_wires>>

\* obj.eigvals
ReadEigvals ==
    /\ cls # NoObject
    /\ last' = [Op("eigvals") EXCEPT !.res = eigvals(cls, params),
                                     !.err = eigvals(cls, params).err]
    /\ UNCHANGED <<cls, name, has_params, trainable, params, n_wires>>

\* obj.forward(q_device, wires, params=callp)
Forward(callp) ==
    LET err == Validate(name, has_params, ~IsNone(callp))
        p == ParamsAfterForward(err, params, callp)
    IN  /\ cls # NoObject
        /\ params' = p
        /\ last' = [Op("forward") EXCEPT !.supplied = ~IsNone(callp), !.err = err,
                                         !.calls = Dispatch(err, cls, p, n_wires)]
        /\ UNCHANGED <<cls, name, has_params, trainable, n_wires>>

\* The module is loaded and no gate is built yet.  A constructor call that
\* raises produces no object and ends the run: a new attempt is a new run.
Init ==
    /\ cls = NoObject
    /\ name = ""
    /\ has_params = None
    /\ trainable = None
    /\ params = None
    /\ n_wires = None
    /\ last = Op("import")

Next ==
    \/ \E c \in Classes : ConstructObservable(c)
    \/ \E c \in Classes, hp \in BOOLEAN, tr \in BOOLEAN, init \in InitArgs, nw \in WireArgs :
          \E d \in Draws(num_params(c), init) :
              ConstructOperation(c, hp, tr, init, nw, d)
    \/ \E v \in NameArgs : SetName(v)
    \/ \E init \in InitArgs : \E d \in Draws(WidthOf(params), init) : ResetParams(init, d)
    \/ ReadMatrix
    \/ ReadEigvals
    \/ \E callp \in CallArgs(cls) : Forward(callp)

Spec == Init /\ [][Next]_vars

(***************************************************************************)
(* The claims                                                              *)
(***************************************************************************)

\* C1: a forward on a gate whose name is not in fixed_ops fails its assertion
\* (AssertionError, the specification's ParameterConflict) when the gate has
\* has_params = True and call-time params are supplied, and when it has
\* has_params = False and none are supplied; it passes when exactly one of the
\* two holds.  A forward on a gate whose name is in fixed_ops passes the
\* assertion whatever is supplied.  (forward changes neither name nor
\* has_params, so the state after the call shows what the call saw.)
C1_ValidationIsExclusiveOr ==
    last.op = "forward" =>
        /\ (name \notin fixed_ops /\ has_params = Some(TRUE) /\ last.supplied)
               => last.err = "AssertionError"
        /\ (name \notin fixed_ops /\ has_params = Some(FALSE) /\ ~last.supplied)
               => last.err = "AssertionError"
        /\ (name \notin fixed_ops /\ ~IsNone(has_params) /\ Get(has_params) # last.supplied)
               => last.err = ""
        /\ name \in fixed_ops => last.err = ""

\* C1, its case: a parameterized gate with stored parameters was given
\* call-time params and forward failed its assertion.
C1_Witness ==
    /\ last.op = "forward" /\ last.supplied /\ last.err = "AssertionError"
    /\ name \notin fixed_ops /\ has_params = Some(TRUE)

C3_ParamsIffHasParams ==
    cls # NoObject =>
        /\ has_params = Some(FALSE) => IsNone(params)
        /\ has_params = Some(TRUE) => ~IsNone(params)

\* C4: a matrix read, an eigvals read and a forward (successful or failing,
\* with or without call-time params) leave self.params as it was.
C4_OnlyResetWritesParams ==
    [][last'.op \in {"matrix", "eigvals", "forward"} => params' = params]_vars

\* C5: reset_params, and so construction, with a list whose length differs
\* from the width of the parameter tensor raises; and a call given a list never
\* completes with some entries written from the list and others not.
C5_ListLengthChecked ==
    /\ (last.op = "reset" /\ last.init.kind = "list" /\ ~IsNone(params)
            /\ Len(last.init.l) # Width(Get(params)))
           => last.err # ""
    /\ (last.op = "construct" /\ last.c \in TakesArguments
            /\ (last.hp \/ last.tr) /\ last.init.kind = "list"
            /\ Len(last.init.l) # num_params(last.c))
           => last.err # ""
    /\ (last.op \in {"reset", "construct"} /\ last.init.kind = "list"
            /\ last.err = "" /\ ~IsNone(params))
           => \A k \in 1..Width(Get(params)) : Get(params).ent[k].by = "list"

C7_EigvalsForFixedAndDiagonal ==
    last.op = "eigvals" =>
        IF cls \in fixed_ops \cup {"RZ", "PhaseShift", "U1", "MultiRZ"}
        THEN last.res.kind = "value"
        ELSE last.res.kind = "raise" /\ last.err = "NotImplementedError"

\* C8: for every DiagonalOperation subclass, a matrix read gives
\* diag(eigenvalues): both reads return a value and the matrix is the diagonal
\* matrix of the eigenvalue vector.
C8_MatrixIsDiagOfEigvals ==
    (last.op = "matrix" /\ cls \in DiagonalClasses) =>
        /\ last.res.kind = "value"
        /\ eigvals(cls, params).kind = "value"
        /\ last.res.val = diag(eigvals(cls, params).val)

\* C9: whether forward's assertion treats a gate as fixed (lets it pass with
\* stored and call-time params both present) is decided by the gate's class, in
\* every state: assigning the name does not change it.
C9_FixedByClass ==
    cls # NoObject =>
        ((Validate(name, Some(TRUE), TRUE) = "") <=> cls \in fixed_ops)

====
